---- MODULE Spec2Model ----
(***************************************************************************)
(* Record-management API: list users with salary filtering, sorting and    *)
(* pagination, create a user, bulk-ingest users from an uploaded CSV.      *)
(* The repository holds three deployment variants of the API:              *)
(*   "memory"  in-memory UserService with filtering/sorting/page size      *)
(*   "seeded"  the first, seeded UserService (no query parameters)         *)
(*   "prisma"  Prisma-backed UserController plus the /upload handler       *)
(***************************************************************************)
EXTENDS Integers, Sequences, FiniteSets, TLC

VARIABLES
    variant,    \* which variant of the API is deployed
    users,      \* UserService.users (in-memory and seeded variants)
    nextId,     \* UserService.nextId (in-memory variant)
    db,         \* rows of the Prisma `user` table, in insertion order
    dbNextId,   \* next autoincrement id of the `user` table
    pc,         \* position of the request handler
    req,        \* the request being handled / last handled
    res,        \* the response sent for req
    calls,      \* store calls made so far by the handler of req
    up,         \* locals of the /upload handler
    bg          \* locals of a second /upload handler running meanwhile

vars ==
    <<variant, users, nextId, db, dbNextId, pc, req, res, calls, up, bg>>

----------------------------------------------------------------------------
(* Bounds *)

MaxUsers == 2       \* records the in-memory store may hold
MaxSeeded == 4      \* records the seeded store may hold
MaxDb == 4          \* an upload starts only if the table stays within it
MaxRows == 2        \* data rows of an uploaded CSV

----------------------------------------------------------------------------
(* JavaScript values *)

Undefined == [k |-> "undefined", n |-> 0, s |-> ""]
NaN == [k |-> "NaN", n |-> 0, s |-> ""]
Num(i) == [k |-> "number", n |-> i, s |-> ""]
Str(x) == [k |-> "string", n |-> 0, s |-> x]

\* typeof v
TypeOf(v) == IF v.k = "NaN" THEN "number" ELSE v.k

\* !v
Falsy(v) ==
    \/ v.k = "undefined"
    \/ v.k = "NaN"
    \/ v.k = "number" /\ v.n = 0
    \/ v.k = "string" /\ v.s = ""

\* isNaN(v) for a value that is a number or undefined
isNaN(v) == v.k = "NaN" \/ v.k = "undefined"

\* a || d
OrElse(v, d) == IF Falsy(v) THEN d ELSE v

\* x >= v and x <= v for a stored number x; a comparison with NaN is false
Gte(x, v) == v.k = "number" /\ x >= v.n
Lte(x, v) == v.k = "number" /\ x <= v.n

----------------------------------------------------------------------------
(* Raw text of a query-string parameter or a CSV field: a sequence of      *)
(* characters, or absent.                                                  *)

Absent == [present |-> FALSE, chars |-> <<>>]
Raw(cs) == [present |-> TRUE, chars |-> cs]

\* truthiness of req.query.x (string | undefined)
Truthy(raw) == raw.present /\ raw.chars # <<>>

Digits == {"0", "1", "2", "3", "4", "5", "6", "7", "8", "9"}

DigitVal(c) ==
    CASE c = "0" -> 0 [] c = "1" -> 1 [] c = "2" -> 2 [] c = "3" -> 3
      [] c = "4" -> 4 [] c = "5" -> 5 [] c = "6" -> 6 [] c = "7" -> 7
      [] c = "8" -> 8 [] c = "9" -> 9

RECURSIVE DigitsValue(_, _)
DigitsValue(cs, acc) ==
    IF cs = <<>> THEN acc
    ELSE DigitsValue(Tail(cs), acc * 10 + DigitVal(Head(cs)))

AllDigits(cs) == \A i \in 1..Len(cs) : cs[i] \in Digits

\* Number(text): the whole text must be a (signed) decimal literal
Number(cs) ==
    IF cs = <<>> THEN Num(0)
    ELSE IF AllDigits(cs) THEN Num(DigitsValue(cs, 0))
    ELSE IF Head(cs) = "-" /\ Len(cs) > 1 /\ AllDigits(Tail(cs))
         THEN Num(0 - DigitsValue(Tail(cs), 0))
    ELSE NaN

\* req.query.x ? Number(req.query.x) : undefined
QueryNumber(raw) == IF Truthy(raw) THEN Number(raw.chars) ELSE Undefined

----------------------------------------------------------------------------
(* Arrays *)

Min(a, b) == IF a < b THEN a ELSE b
Max(a, b) == IF a > b THEN a ELSE b

\* Array.prototype.slice(start, end) with integer arguments
Slice(arr, start, end) ==
    LET len == Len(arr)
        from == IF start < 0 THEN Max(len + start, 0) ELSE Min(start, len)
        to == IF end < 0 THEN Max(len + end, 0) ELSE Min(end, len)
    IN  IF from >= to THEN <<>> ELSE SubSeq(arr, from + 1, to)

\* Array.prototype.slice(start)
SliceFrom(arr, start) == Slice(arr, start, Len(arr))

----------------------------------------------------------------------------
(* User records and their orderings *)

Names == {"al", "Bo"}

\* String.prototype.localeCompare on the names in use: the locale collation
\* orders letters first and case second ("al" < "Al" < "Bo")
CollationRank(name) ==
    CASE name = "al" -> 1 [] name = "Al" -> 2 [] name = "Bo" -> 3

localeCompare(a, b) ==
    IF CollationRank(a) < CollationRank(b) THEN 0 - 1
    ELSE IF CollationRank(a) > CollationRank(b) THEN 1
    ELSE 0

\* the comparator with the salary operands swapped
Compare_Swapped(a, b, sort) ==
    IF sort = "NAME" THEN localeCompare(a.name, b.name)
    ELSE IF sort = "SALARY" THEN b.salary - a.salary
    ELSE 0

\* the comparator handed to Array.prototype.sort
Compare(a, b, sort) ==
    IF sort = "NAME" THEN localeCompare(a.name, b.name)
    ELSE IF sort = "SALARY" THEN a.salary - b.salary
    ELSE 0

\* a sort that puts an element before the ones it compares equal to
RECURSIVE SortBy_Unstable(_, _)
SortBy_Unstable(arr, sort) ==
    IF arr = <<>> THEN <<>>
    ELSE LET init == SortBy_Unstable(SubSeq(arr, 1, Len(arr) - 1), sort)
             x == arr[Len(arr)]
             less == {j \in 1..Len(init) : Compare(init[j], x, sort) < 0}
             p == IF less = {} THEN 0
                  ELSE CHOOSE j \in less : \A i \in less : i <= j
         IN  SubSeq(init, 1, p) \o <<x>> \o SubSeq(init, p + 1, Len(init))

\* Array.prototype.sort(comparator): a stable sort, here by insertion; each
\* element goes right after the last one that does not compare greater
RECURSIVE SortBy(_, _)
SortBy(arr, sort) ==
    IF arr = <<>> THEN <<>>
    ELSE LET init == SortBy(SubSeq(arr, 1, Len(arr) - 1), sort)
             x == arr[Len(arr)]
             notGreater == {j \in 1..Len(init) : Compare(init[j], x, sort) <= 0}
             p == IF notGreater = {} THEN 0
                  ELSE CHOOSE j \in notGreater : \A i \in notGreater : i <= j
         IN  SubSeq(init, 1, p) \o <<x>> \o SubSeq(init, p + 1, Len(init))

----------------------------------------------------------------------------
(* UserService, in-memory variant *)

\* filteredUsers bound to this.users itself
SpreadCopy_Alias(arr) == [elems |-> arr, shared |-> TRUE]

\* [...this.users]: a new array holding the same elements
SpreadCopy(arr) == [elems |-> arr, shared |-> FALSE]

\* filteredUsers.filter(user => user.salary >= params.min!): a new array
FilterMin(a, min) ==
    [elems |-> SelectSeq(a.elems, LAMBDA user : Gte(user.salary, min)),
     shared |-> FALSE]

\* filteredUsers.filter(user => user.salary <= params.max!): a new array
FilterMax(a, max) ==
    [elems |-> SelectSeq(a.elems, LAMBDA user : Lte(user.salary, max)),
     shared |-> FALSE]

\* the page with one record as the page size when none is given
Paginate_Capped(arr, params) ==
    LET offset == OrElse(params.offset, Num(0)).n
        pageSize == OrElse(params.pageSize, Num(1))
    IN  Slice(arr, offset, offset + pageSize.n)

\* the page of the filtered and sorted array
Paginate(arr, params) ==
    LET offset == OrElse(params.offset, Num(0)).n
        pageSize == params.pageSize
    IN  IF ~Falsy(pageSize)
        THEN Slice(arr, offset, offset + pageSize.n)
        ELSE SliceFrom(arr, offset)

\* filteredUsers of UserService.getUsers once filtered and sorted; `shared`
\* tells whether it still is the array this.users
FilteredSorted(store, params) ==
    LET copy == SpreadCopy(store)
        f1 == IF params.min.k # "undefined" THEN FilterMin(copy, params.min)
              ELSE copy
        f2 == IF params.max.k # "undefined" THEN FilterMax(f1, params.max)
              ELSE f1
    IN  IF ~Falsy(params.sort)
        THEN [f2 EXCEPT !.elems = SortBy(f2.elems, params.sort.s)]
        ELSE f2

\* UserService.getUsers with the total taken from the page
ServiceGetUsers_TotalOfPage(store, params) ==
    LET filteredUsers == FilteredSorted(store, params)
        page == Paginate(filteredUsers.elems, params)
    IN  [users |-> page,
         total |-> Len(page),
         store |-> IF filteredUsers.shared THEN filteredUsers.elems
                   ELSE store]

\* UserService.getUsers(params) on the array `store`; `store` in the result
\* is this.users after the call (sort works in place on filteredUsers)
ServiceGetUsers(store, params) ==
    LET filteredUsers == FilteredSorted(store, params)
    IN  [users |-> Paginate(filteredUsers.elems, params),
         total |-> Len(filteredUsers.elems),
         store |-> IF filteredUsers.shared THEN filteredUsers.elems
                   ELSE store]

\* a new record numbered one below the id it is given
ServiceCreateUser_OffByOne(id, userData) ==
    [id |-> ToString(id - 1), name |-> userData.name, salary |-> userData.salary]

\* UserService.createUser(userData): the new record
ServiceCreateUser(id, userData) ==
    [id |-> ToString(id), name |-> userData.name, salary |-> userData.salary]

----------------------------------------------------------------------------
(* Requests and responses *)

NoReq == [op |-> "none"]
NoRes == [status |-> 0]

\* the /upload handler is not running
NoUpload == [stage |-> "none"]

\* a call into the store, with its argument
Call(fn, args) == [fn |-> fn, args |-> args]

ErrorRes(status, msg) == [status |-> status, success |-> FALSE, error |-> msg]

\* values a numeric query parameter may carry
MinTexts ==
    {Absent, Raw(<<>>), Raw(<<"a", "b", "c">>), Raw(<<"0">>),
     Raw(<<"3", "0", "0", "0">>)}
MaxTexts ==
    {Absent, Raw(<<"a", "b", "c">>), Raw(<<"0">>), Raw(<<"3", "0", "0", "0">>)}
OffsetTexts == {Absent, Raw(<<"x">>), Raw(<<"1">>), Raw(<<"2">>)}
PageTexts == {Absent, Raw(<<"x">>), Raw(<<"0">>), Raw(<<"1">>)}
SortValues == {Undefined, Str("NAME"), Str("SALARY"), Str("INVALID")}

\* bodies of POST /api/users
BodyNames == {Undefined, Str(""), Num(7)} \cup {Str(nm) : nm \in Names}
BodySalaries ==
    {Undefined, Str("3000"), Num(0), Num(0 - 1), Num(3000), Num(5000)}

----------------------------------------------------------------------------
(* Controllers of the in-memory variant *)

\* the validation of getUsers: the message of the first failing check
QueryError(params) ==
    IF params.min.k # "undefined" /\ isNaN(params.min)
    THEN "Invalid min parameter"
    ELSE IF params.max.k # "undefined" /\ isNaN(params.max)
    THEN "Invalid max parameter"
    ELSE IF params.offset.k # "undefined" /\ isNaN(params.offset)
    THEN "Invalid offset parameter"
    ELSE IF params.pageSize.k # "undefined" /\ isNaN(params.pageSize)
    THEN "Invalid pageSize parameter"
    ELSE ""

\* the params object getUsers builds from req.query
QueryParams(q) ==
    [min |-> QueryNumber(q.min), max |-> QueryNumber(q.max),
     offset |-> QueryNumber(q.offset), pageSize |-> QueryNumber(q.pageSize),
     sort |-> q.sort]

\* GET /api/users
GetUsers(q) ==
    /\ variant = "memory"
    /\ pc = "idle"
    /\ LET params == QueryParams(q)
           err == QueryError(params)
           r == ServiceGetUsers(users, params)
       IN  IF err # ""
           THEN /\ res' = ErrorRes(400, err)
                /\ calls' = <<>>
                /\ users' = users
           ELSE /\ res' = [status |-> 200, success |-> TRUE, data |-> r.users,
                           total |-> r.total,
                           offset |-> OrElse(params.offset, Num(0)).n,
                           pageSize |-> params.pageSize]
                /\ calls' = <<Call("getUsers", params)>>
                /\ users' = r.store
    /\ req' = [op |-> "getUsers", query |-> q]
    /\ pc' = "responded"
    /\ UNCHANGED <<variant, nextId, db, dbNextId, up, bg>>

\* the checks of createUser on req.body
NameInvalid(name) == Falsy(name) \/ TypeOf(name) # "string"

\* the salary check without the typeof test
SalaryInvalid_Untyped(salary) == Falsy(salary)

SalaryInvalid(salary) == Falsy(salary) \/ TypeOf(salary) # "number"

\* the validation of createUser: the message of the first failing check
BodyError(body) ==
    IF NameInvalid(body.name) THEN "Name is required and must be a string"
    ELSE IF SalaryInvalid(body.salary)
    THEN "Salary is required and must be a number"
    ELSE ""

\* POST /api/users
CreateUser(body) ==
    /\ variant = "memory"
    /\ pc = "idle"
    /\ LET err == BodyError(body)
           newUser == ServiceCreateUser(nextId,
                          [name |-> body.name.s, salary |-> body.salary.n])
       IN  IF err # ""
           THEN /\ res' = ErrorRes(400, err)
                /\ calls' = <<>>
                /\ UNCHANGED <<users, nextId>>
           ELSE /\ Len(users) < MaxUsers
                /\ users' = Append(users, newUser)
                /\ nextId' = nextId + 1
                /\ calls' = <<Call("createUser", body)>>
                /\ res' = [status |-> 201, success |-> TRUE, data |-> newUser,
                           message |-> "User created successfully"]
    /\ req' = [op |-> "createUser", body |-> body]
    /\ pc' = "responded"
    /\ UNCHANGED <<variant, db, dbNextId, up, bg>>

\* the client takes the response; the server waits for the next request
Deliver ==
    /\ pc = "responded"
    /\ pc' = "idle"
    /\ req' = NoReq
    /\ res' = NoRes
    /\ calls' = <<>>
    /\ up' = NoUpload
    /\ UNCHANGED <<variant, users, nextId, db, dbNextId, bg>>

Queries ==
    [min : MinTexts, max : MaxTexts, offset : OffsetTexts,
     pageSize : PageTexts, sort : SortValues]

Bodies == [name : BodyNames, salary : BodySalaries]

InitMemory ==
    /\ variant = "memory"
    /\ users = <<>>
    /\ nextId = 1
    /\ db = <<>>
    /\ dbNextId = 1
    /\ pc = "idle"
    /\ req = NoReq
    /\ res = NoRes
    /\ calls = <<>>
    /\ up = NoUpload
    /\ bg = NoUpload

NextMemory ==
    \/ \E q \in Queries : GetUsers(q)
    \/ \E body \in Bodies : CreateUser(body)
    \/ Deliver

SpecMemory == InitMemory /\ [][NextMemory]_vars

----------------------------------------------------------------------------
(* Seeded variant: UserService with three initial records, controllers     *)
(* without query parameters                                                *)

SeedUsers ==
    <<[id |-> "1", name |-> "John Doe", salary |-> 50000],
      [id |-> "2", name |-> "Jane Smith", salary |-> 75000],
      [id |-> "3", name |-> "Bob Johnson", salary |-> 65000]>>

\* UserService.getUsers(): the stored array itself
SeededServiceGetUsers(store) == [elems |-> store, shared |-> TRUE]

\* GET /api/users
SeededGetUsers ==
    /\ variant = "seeded"
    /\ pc = "idle"
    /\ LET r == SeededServiceGetUsers(users)
       IN  /\ res' = [status |-> 200, success |-> TRUE, data |-> r.elems,
                      total |-> Len(r.elems)]
           /\ users' = IF r.shared THEN r.elems ELSE users
    /\ calls' = <<Call("getUsers", <<>>)>>
    /\ req' = [op |-> "getUsers"]
    /\ pc' = "responded"
    /\ UNCHANGED <<variant, nextId, db, dbNextId, up, bg>>

\* POST /api/users
SeededCreateUser(body) ==
    /\ variant = "seeded"
    /\ pc = "idle"
    /\ LET err == BodyError(body)
           newUser == ServiceCreateUser(Len(users) + 1,
                          [name |-> body.name.s, salary |-> body.salary.n])
       IN  IF err # ""
           THEN /\ res' = ErrorRes(400, err)
                /\ calls' = <<>>
                /\ users' = users
           ELSE /\ Len(users) < MaxSeeded
                /\ users' = Append(users, newUser)
                /\ calls' = <<Call("createUser", body)>>
                /\ res' = [status |-> 201, success |-> TRUE, data |-> newUser,
                           message |-> "User created successfully"]
    /\ req' = [op |-> "createUser", body |-> body]
    /\ pc' = "responded"
    /\ UNCHANGED <<variant, nextId, db, dbNextId, up, bg>>

InitSeeded ==
    /\ variant = "seeded"
    /\ users = SeedUsers
    /\ nextId = 1
    /\ db = <<>>
    /\ dbNextId = 1
    /\ pc = "idle"
    /\ req = NoReq
    /\ res = NoRes
    /\ calls = <<>>
    /\ up = NoUpload
    /\ bg = NoUpload

NextSeeded ==
    \/ SeededGetUsers
    \/ \E body \in Bodies : SeededCreateUser(body)
    \/ Deliver

SpecSeeded == InitSeeded /\ [][NextSeeded]_vars

----------------------------------------------------------------------------
(* Prisma variant: the user table *)

DefaultMin == 0
DefaultMax == 4000
DefaultLimit == 10

\* the order of the database's text comparison: by code point
CodePointRank(name) ==
    CASE name = "Al" -> 1 [] name = "Bo" -> 2 [] name = "al" -> 3

\* ORDER BY <field> ASC holds between rows a and b listed in that order
InOrder(a, b, orderBy) ==
    IF orderBy = "name" THEN CodePointRank(a.name) <= CodePointRank(b.name)
    ELSE IF orderBy = "salary" THEN a.salary <= b.salary
    ELSE a.id <= b.id

\* the orders in which the database may return `rows` (listed by id): every
\* arrangement that respects ORDER BY; rows that tie come in any order;
\* without ORDER BY the table is scanned by id
Orderings(rows, orderBy) ==
    LET n == Len(rows)
        perms == {f \in [1..n -> 1..n] : \A i, j \in 1..n : i # j => f[i] # f[j]}
    IN  {[i \in 1..n |-> rows[f[i]]] : f \in
            {g \in perms : \A i, j \in 1..n :
                i < j => InOrder(rows[g[i]], rows[g[j]], orderBy)}}

\* prisma.user.findMany({where: {salary: {gte, lte}}, orderBy, skip, take})
\* for skip >= 0 and take >= 0: the rows it may return
FindMany(table, gte, lte, orderBy, skip, take) ==
    LET matching == SelectSeq(table,
                        LAMBDA row : row.salary >= gte /\ row.salary <= lte)
    IN  {Slice(ordered, skip, skip + take) :
            ordered \in Orderings(matching, orderBy)}

\* the name with its capitals lowered
Lower(name) == IF name = "Al" THEN "al" ELSE name

\* findFirst matching the name without regard to case
FindFirst_IgnoreCase(table, name) ==
    LET hits == SelectSeq(table, LAMBDA row : Lower(row.name) = Lower(name))
    IN  IF hits = <<>> THEN <<>> ELSE <<Head(hits)>>

\* prisma.user.findFirst({where: {name}}): the first row with that name
FindFirst(table, name) ==
    LET hits == SelectSeq(table, LAMBDA row : row.name = name)
    IN  IF hits = <<>> THEN <<>> ELSE <<Head(hits)>>

\* an update adding the salary to the stored one
Update_Accumulate(table, id, salary) ==
    [i \in 1..Len(table) |->
        IF table[i].id = id THEN [table[i] EXCEPT !.salary = @ + salary]
        ELSE table[i]]

\* prisma.user.update({where: {id}, data: {salary}})
Update(table, id, salary) ==
    [i \in 1..Len(table) |->
        IF table[i].id = id THEN [table[i] EXCEPT !.salary = salary]
        ELSE table[i]]

\* the id column of the table: each created row takes the counter's value and
\* the counter moves on, so that no id is given twice
Autoincrement(counter) == counter + 1

\* a create that replaces the rows of the table by the new one
Create_Replacing(table, id, user) ==
    <<[id |-> id, name |-> user.name, salary |-> user.salary]>>

\* prisma.user.create({data: user}): the row gets the next id
Create(table, id, user) ==
    Append(table, [id |-> id, name |-> user.name, salary |-> user.salary])

----------------------------------------------------------------------------
(* Prisma variant: GET /api/users *)

\* the query object the route builds from req.query
RouteQuery(q) ==
    [min |-> QueryNumber(q.min), max |-> QueryNumber(q.max), sort |-> q.sort,
     offset |-> QueryNumber(q.offset), limit |-> QueryNumber(q.limit)]

\* the where clause of UserController.getUsers
Where(query) ==
    [gte |-> OrElse(query.min, Num(DefaultMin)).n,
     lte |-> OrElse(query.max, Num(DefaultMax)).n]

\* the orderBy clause of UserController.getUsers
OrderBy(query) ==
    IF query.sort = Str("NAME") THEN "name"
    ELSE IF query.sort = Str("SALARY") THEN "salary"
    ELSE "none"

\* UserController.getUsers(query): the responses it may give
ControllerGetUsers(table, query) ==
    LET where == Where(query)
    IN  {[results |-> [i \in 1..Len(found) |->
                         [name |-> found[i].name, salary |-> found[i].salary]]] :
            found \in FindMany(table, where.gte, where.lte, OrderBy(query),
                               OrElse(query.offset, Num(0)).n,
                               OrElse(query.limit, Num(DefaultLimit)).n)}

\* router.get('/users')
RouteGetUsers(q) ==
    /\ variant = "prisma"
    /\ pc = "idle"
    /\ \E response \in ControllerGetUsers(db, RouteQuery(q)) :
          res' = [status |-> 200, results |-> response.results]
    /\ calls' = <<Call("findMany", RouteQuery(q))>>
    /\ req' = [op |-> "getUsers", query |-> q]
    /\ pc' = "responded"
    /\ UNCHANGED <<variant, users, nextId, db, dbNextId, up, bg>>

RouteQueries ==
    [min : MinTexts, max : MaxTexts, offset : OffsetTexts,
     limit : PageTexts, sort : SortValues]

----------------------------------------------------------------------------
(* Prisma variant: POST /upload *)

\* the longest prefix of cs made of digits
RECURSIVE DigitPrefix(_)
DigitPrefix(cs) ==
    IF cs = <<>> \/ Head(cs) \notin Digits THEN <<>>
    ELSE <<Head(cs)>> \o DigitPrefix(Tail(cs))

\* parseFloat(text): the longest prefix that is a (signed) decimal literal;
\* the texts in use have no fraction other than zeros, which adds nothing
parseFloat(raw) ==
    LET cs == raw.chars
        neg == cs # <<>> /\ Head(cs) = "-"
        body == IF neg THEN Tail(cs) ELSE cs
        int == DigitPrefix(body)
    IN  IF ~raw.present \/ int = <<>> THEN NaN
        ELSE IF neg THEN Num(0 - DigitsValue(int, 0))
        ELSE Num(DigitsValue(int, 0))

\* the 'data' callback without the isNaN check
RowRejections_Unparsed(data) ==
    IF Falsy(data.name) \/ ~Truthy(data.salary)
    THEN <<"Invalid CSV format: missing required fields">> ELSE <<>>

\* the 'data' callback on one row: what it rejects with (reject does not
\* leave the callback) and what it pushes to results
RowRejections(data) ==
    (IF Falsy(data.name) \/ ~Truthy(data.salary)
     THEN <<"Invalid CSV format: missing required fields">> ELSE <<>>)
    \o (IF isNaN(parseFloat(data.salary))
        THEN <<"Invalid salary format">> ELSE <<>>)

\* the 'data' callback pushing rows with a positive salary only
RowPushed_Positive(data) ==
    LET salary == parseFloat(data.salary)
    IN  IF salary.k = "number" /\ salary.n > 0
        THEN <<[name |-> data.name.s, salary |-> salary.n]>>
        ELSE <<>>

RowPushed(data) ==
    LET salary == parseFloat(data.salary)
    IN  IF salary.k = "number" /\ salary.n >= 0
        THEN <<[name |-> data.name.s, salary |-> salary.n]>>
        ELSE <<>>

\* reading the whole stream: results, and every rejection in order
RECURSIVE ReadRows(_)
ReadRows(rows) ==
    IF rows = <<>> THEN [results |-> <<>>, rejections |-> <<>>]
    ELSE LET rest == ReadRows(Tail(rows))
         IN  [results |-> RowPushed(Head(rows)) \o rest.results,
              rejections |-> RowRejections(Head(rows)) \o rest.rejections]

\* req.file: the staged upload with its data rows, or none
NoFile == [present |-> FALSE, rows |-> <<>>]
CsvFile(rows) == [present |-> TRUE, rows |-> rows]

\* fs.unlinkSync(path) on the staged file of the handler with locals u
Unlink(u) == [u EXCEPT !.staged = FALSE, !.unlinks = @ + 1]

\* the response of the catch block
CatchResponse(message) == [status |-> 400, success |-> 0, error |-> message]

\* the locals of a handler that starts on a staged file; `before` keeps the
\* table as the handler found it
StartLocals(table) ==
    [stage |-> "parse", read |-> 0, results |-> <<>>, i |-> 1,
     existing |-> <<>>, staged |-> TRUE, unlinks |-> 0, before |-> table]

\* app.post('/upload'): the request arrives, multer has staged the file
UploadStart(file) ==
    /\ variant = "prisma"
    /\ pc = "idle"
    /\ req' = [op |-> "upload", file |-> file]
    /\ calls' = <<>>
    /\ IF ~file.present
       THEN /\ res' = [status |-> 400, success |-> 0,
                       error |-> "No file uploaded"]
            /\ pc' = "responded"
            /\ up' = up
       ELSE /\ Len(db) + Len(file.rows) <= MaxDb
            /\ res' = NoRes
            /\ pc' = "upload"
            /\ up' = StartLocals(db)
    /\ UNCHANGED <<variant, users, nextId, db, dbNextId, bg>>

\* the 'data' event of the next row while the handler awaits the promise; a
\* reject settles the promise and the catch block runs
UploadRead ==
    /\ pc = "upload"
    /\ up.stage = "parse"
    /\ up.read < Len(req.file.rows)
    /\ LET data == req.file.rows[up.read + 1]
       IN  IF RowRejections(data) # <<>>
           THEN /\ up' = [Unlink(up) EXCEPT !.stage = "done", !.read = @ + 1]
                /\ res' = CatchResponse(Head(RowRejections(data)))
                /\ pc' = "responded"
           ELSE /\ up' = [up EXCEPT !.read = @ + 1,
                                    !.results = @ \o RowPushed(data)]
                /\ UNCHANGED <<res, pc>>
    /\ UNCHANGED <<variant, users, nextId, db, dbNextId, req, calls, bg>>

\* an 'end' that comes as soon as one row has been read
StreamEnded_Early(u, file) == u.read >= Min(1, Len(file.rows))

\* the 'end' event: every row has been read
StreamEnded(u, file) == u.read = Len(file.rows)

\* .on('end', resolve): the promise resolves and the loop starts
UploadEnd ==
    /\ pc = "upload"
    /\ up.stage = "parse"
    /\ StreamEnded(up, req.file)
    /\ up' = [up EXCEPT !.stage = "find"]
    /\ UNCHANGED <<variant, users, nextId, db, dbNextId, pc, req, res, calls,
                   bg>>

\* a find that looks at the table as it was when the handler started
UploadFind_Stale ==
    /\ pc = "upload"
    /\ up.stage = "find"
    /\ up.i <= Len(up.results)
    /\ up' = [up EXCEPT !.stage = "write",
                        !.existing = FindFirst(up.before, up.results[up.i].name)]
    /\ calls' = Append(calls, Call("findFirst", up.results[up.i].name))
    /\ UNCHANGED <<variant, users, nextId, db, dbNextId, pc, req, res, bg>>

\* await prisma.user.findFirst({where: {name: user.name}})
UploadFind ==
    /\ pc = "upload"
    /\ up.stage = "find"
    /\ up.i <= Len(up.results)
    /\ up' = [up EXCEPT !.stage = "write",
                        !.existing = FindFirst(db, up.results[up.i].name)]
    /\ calls' = Append(calls, Call("findFirst", up.results[up.i].name))
    /\ UNCHANGED <<variant, users, nextId, db, dbNextId, pc, req, res, bg>>

\* writes that stay in a transaction still open when the handler answers
UploadWrite_Deferred ==
    /\ pc = "upload"
    /\ up.stage = "write"
    /\ LET user == up.results[up.i]
       IN  calls' = Append(calls, Call(IF up.existing # <<>> THEN "update"
                                       ELSE "create", user))
    /\ up' = [up EXCEPT !.stage = "find", !.i = @ + 1, !.existing = <<>>]
    /\ UNCHANGED <<variant, users, nextId, db, dbNextId, pc, req, res, bg>>

\* await prisma.user.update(...) or await prisma.user.create(...)
UploadWrite ==
    /\ pc = "upload"
    /\ up.stage = "write"
    /\ LET user == up.results[up.i]
       IN  IF up.existing # <<>>
           THEN /\ db' = Update(db, up.existing[1].id, user.salary)
                /\ dbNextId' = dbNextId
                /\ calls' = Append(calls, Call("update", user))
           ELSE /\ db' = Create(db, dbNextId, user)
                /\ dbNextId' = Autoincrement(dbNextId)
                /\ calls' = Append(calls, Call("create", user))
    /\ up' = [up EXCEPT !.stage = "find", !.i = @ + 1, !.existing = <<>>]
    /\ UNCHANGED <<variant, users, nextId, pc, req, res, bg>>

\* for (const user of results) { findFirst; update or create }: the whole
\* loop run alone on a store, from row i on
RECURSIVE UpsertLoop(_, _, _)
UpsertLoop(store, results, i) ==
    IF i > Len(results) THEN store
    ELSE LET user == results[i]
             existingUser == FindFirst(store.table, user.name)
         IN  IF existingUser # <<>>
             THEN UpsertLoop([store EXCEPT !.table =
                                  Update(@, existingUser[1].id, user.salary)],
                             results, i + 1)
             ELSE UpsertLoop([table |-> Create(store.table, store.next, user),
                              next |-> Autoincrement(store.next)],
                             results, i + 1)

\* the message of the error a failing store call throws
StoreFailure == "Can't reach database server"

\* a prisma call of the loop throws instead of completing: the catch block
\* runs, nothing is written by the failing call
\* a catch block that answers without unlinking the file
UploadStoreFails_NoCleanup ==
    /\ pc = "upload"
    /\ \/ up.stage = "find" /\ up.i <= Len(up.results)
       \/ up.stage = "write"
    /\ up' = [up EXCEPT !.stage = "done"]
    /\ res' = CatchResponse(StoreFailure)
    /\ pc' = "responded"
    /\ UNCHANGED <<variant, users, nextId, db, dbNextId, req, calls, bg>>

UploadStoreFails ==
    /\ pc = "upload"
    /\ \/ up.stage = "find" /\ up.i <= Len(up.results)
       \/ up.stage = "write"
    /\ up' = [Unlink(up) EXCEPT !.stage = "done"]
    /\ res' = CatchResponse(StoreFailure)
    /\ pc' = "responded"
    /\ UNCHANGED <<variant, users, nextId, db, dbNextId, req, calls, bg>>

\* fs.unlinkSync(filePath); res.json({success: 1, ...})
UploadFinish ==
    /\ pc = "upload"
    /\ up.stage = "find"
    /\ up.i > Len(up.results)
    /\ up' = [Unlink(up) EXCEPT !.stage = "done"]
    /\ res' = [status |-> 200, success |-> 1,
               processed |-> Len(up.results),
               processedRecords |-> up.results]
    /\ pc' = "responded"
    /\ UNCHANGED <<variant, users, nextId, db, dbNextId, req, calls, bg>>

CsvNames == {Str(nm) : nm \in Names}
CsvSalaries ==
    {Raw(<<"0">>), Raw(<<"3", "0", "0", "0">>), Raw(<<"5", "0", "0", "0">>),
     Raw(<<"-", "1">>), Raw(<<"a", "b", "c">>)}
CsvRows == [name : CsvNames, salary : CsvSalaries]
CsvFiles == {CsvFile(rows) : rows \in UNION {[1..n -> CsvRows] : n \in 0..MaxRows}}

InitPrisma ==
    /\ variant = "prisma"
    /\ users = <<>>
    /\ nextId = 1
    /\ db = <<>>
    /\ dbNextId = 1
    /\ pc = "idle"
    /\ req = NoReq
    /\ res = NoRes
    /\ calls = <<>>
    /\ up = NoUpload
    /\ bg = NoUpload

NextPrisma ==
    \/ \E q \in RouteQueries : RouteGetUsers(q)
    \/ \E file \in CsvFiles \cup {NoFile} : UploadStart(file)
    \/ UploadRead
    \/ UploadEnd
    \/ UploadFind
    \/ UploadWrite
    \/ UploadFinish
    \/ Deliver

SpecPrisma == InitPrisma /\ [][NextPrisma]_vars

----------------------------------------------------------------------------
(* The upload handler alone, on files with names that differ in case only, *)
(* zero and negative salaries, and rows that lack a field                  *)

UploadNames == {Str("al"), Str("Al"), Str("")}
UploadSalaries ==
    {Raw(<<"0", ".", "0", "0">>), Raw(<<"3", "0", "0", "0">>),
     Raw(<<"-", "1">>), Raw(<<"a", "b", "c">>), Absent}
UploadRows == [name : UploadNames, salary : UploadSalaries]
UploadFiles ==
    {CsvFile(rows) : rows \in UNION {[1..n -> UploadRows] : n \in 0..MaxRows}}

NextUpload ==
    \/ \E file \in UploadFiles \cup {NoFile} : UploadStart(file)
    \/ UploadRead
    \/ UploadEnd
    \/ UploadFind
    \/ UploadWrite
    \/ UploadStoreFails
    \/ UploadFinish
    \/ Deliver

SpecUpload == InitPrisma /\ [][NextUpload]_vars

----------------------------------------------------------------------------
(* Prisma variant: a second POST /upload request in flight *)

\* Express runs the handler of a second request while the first one awaits a
\* store call; bg holds the second request's file, locals and response

\* the second request arrives with its file
OtherStart(file) ==
    /\ variant = "prisma"
    /\ bg = NoUpload
    /\ file.present
    /\ bg' = [file |-> file, res |-> NoRes, up |-> StartLocals(db)]
    /\ UNCHANGED <<variant, users, nextId, db, dbNextId, pc, req, res, calls, up>>

\* the stream of the second request is read to its end: no store call is
\* made while it is read
OtherParse ==
    /\ bg # NoUpload
    /\ bg.up.stage = "parse"
    /\ LET read == ReadRows(bg.file.rows)
       IN  IF read.rejections # <<>>
           THEN bg' = [bg EXCEPT !.up = [Unlink(@) EXCEPT !.stage = "done"],
                                 !.res = CatchResponse(Head(read.rejections))]
           ELSE bg' = [bg EXCEPT !.up.stage = "find",
                                 !.up.read = Len(bg.file.rows),
                                 !.up.results = read.results]
    /\ UNCHANGED <<variant, users, nextId, db, dbNextId, pc, req, res, calls, up>>

\* await prisma.user.findFirst(...) of the second request
OtherFind ==
    /\ bg # NoUpload
    /\ bg.up.stage = "find"
    /\ bg.up.i <= Len(bg.up.results)
    /\ bg' = [bg EXCEPT !.up.stage = "write",
                        !.up.existing =
                            FindFirst(db, bg.up.results[bg.up.i].name)]
    /\ UNCHANGED <<variant, users, nextId, db, dbNextId, pc, req, res, calls, up>>

\* await prisma.user.update(...) or create(...) of the second request
OtherWrite ==
    /\ bg # NoUpload
    /\ bg.up.stage = "write"
    /\ LET user == bg.up.results[bg.up.i]
       IN  IF bg.up.existing # <<>>
           THEN /\ db' = Update(db, bg.up.existing[1].id, user.salary)
                /\ dbNextId' = dbNextId
           ELSE /\ db' = Create(db, dbNextId, user)
                /\ dbNextId' = Autoincrement(dbNextId)
    /\ bg' = [bg EXCEPT !.up.stage = "find", !.up.i = @ + 1,
                        !.up.existing = <<>>]
    /\ UNCHANGED <<variant, users, nextId, pc, req, res, calls, up>>

\* the second request unlinks its file and answers
OtherFinish ==
    /\ bg # NoUpload
    /\ bg.up.stage = "find"
    /\ bg.up.i > Len(bg.up.results)
    /\ bg' = [bg EXCEPT !.up = [Unlink(@) EXCEPT !.stage = "done"],
                        !.res = [status |-> 200, success |-> 1,
                                 processed |-> Len(bg.up.results),
                                 processedRecords |-> bg.up.results]]
    /\ UNCHANGED <<variant, users, nextId, db, dbNextId, pc, req, res, calls, up>>

\* the response of the second request reaches its client
OtherDeliver ==
    /\ bg # NoUpload
    /\ bg.up.stage = "done"
    /\ bg' = NoUpload
    /\ UNCHANGED <<variant, users, nextId, db, dbNextId, pc, req, res, calls, up>>

\* the rows of a file of two requests in flight together
MaxRaceRows == 2

RaceSalaries == {Raw(<<"3", "0", "0", "0">>)}
RaceRows == [name : CsvNames, salary : RaceSalaries]
RaceFiles ==
    {CsvFile(rows) : rows \in UNION {[1..n -> RaceRows] : n \in 1..MaxRaceRows}}

NextRace ==
    \/ \E file \in RaceFiles : UploadStart(file)
    \/ UploadRead
    \/ UploadEnd
    \/ UploadFind
    \/ UploadWrite
    \/ UploadFinish
    \/ Deliver
    \/ \E file \in RaceFiles : OtherStart(file)
    \/ OtherParse
    \/ OtherFind
    \/ OtherWrite
    \/ OtherFinish
    \/ OtherDeliver

SpecRace == InitPrisma /\ [][NextRace]_vars

----------------------------------------------------------------------------
(* Specifications over several variants *)

\* the operations that write to a store, of the three variants
InitStores == InitMemory \/ InitSeeded \/ InitPrisma

NextStores ==
    \/ \E body \in Bodies : CreateUser(body)
    \/ \E body \in Bodies : SeededCreateUser(body)
    \/ \E file \in UploadFiles \cup {NoFile} : UploadStart(file)
    \/ UploadRead
    \/ UploadEnd
    \/ UploadFind
    \/ UploadWrite
    \/ UploadStoreFails
    \/ UploadFinish
    \/ Deliver

SpecStores == InitStores /\ [][NextStores]_vars

\* the two UserService variants
InitService == InitMemory \/ InitSeeded

NextService ==
    \/ \E q \in Queries : GetUsers(q)
    \/ \E body \in Bodies : CreateUser(body)
    \/ SeededGetUsers
    \/ \E body \in Bodies : SeededCreateUser(body)
    \/ Deliver

SpecService == InitService /\ [][NextService]_vars

\* the two variants that take query parameters
InitQuery == InitMemory \/ InitPrisma

NextQuery ==
    \/ \E q \in Queries : GetUsers(q)
    \/ \E body \in Bodies : CreateUser(body)
    \/ \E q \in RouteQueries : RouteGetUsers(q)
    \/ \E file \in CsvFiles \cup {NoFile} : UploadStart(file)
    \/ UploadRead
    \/ UploadEnd
    \/ UploadFind
    \/ UploadWrite
    \/ UploadFinish
    \/ Deliver

SpecQuery == InitQuery /\ [][NextQuery]_vars

----------------------------------------------------------------------------
(* Properties *)

\* the in-memory variant has answered a query with a page
Answered ==
    /\ variant = "memory"
    /\ pc = "responded"
    /\ req.op = "getUsers"
    /\ res.status = 200

\* the Prisma variant has answered a query
RouteAnswered ==
    /\ variant = "prisma"
    /\ pc = "responded"
    /\ req.op = "getUsers"

\* positions of the records of `store` with min <= salary <= max
InRange(store, min, max) ==
    {i \in 1..Len(store) : min <= store[i].salary /\ store[i].salary <= max}

\* the text is supplied and denotes a number
SuppliedNumber(raw) == Truthy(raw) /\ Number(raw.chars).k = "number"

\* the text is supplied and does not parse as a number
NotANumber(raw) == Truthy(raw) /\ Number(raw.chars).k = "NaN"

\* the elements of arr at positions offset .. offset+count-1 (from 0)
Window(arr, offset, count) ==
    [i \in 1..Min(count, Max(Len(arr) - offset, 0)) |-> arr[offset + i]]

\* C1: the total returned by UserService.getUsers is the number of stored
\* records with min <= salary <= max, and it is the same for every offset,
\* pageSize and sort key.
C1_TotalIsFilteredCount ==
    Answered =>
        LET params == calls[1].args
        IN  /\ (params.min.k = "number" /\ params.max.k = "number") =>
                   res.total =
                       Cardinality(InRange(users, params.min.n, params.max.n))
            /\ \A o \in OffsetTexts, ps \in PageTexts, so \in SortValues :
                   LET other == [params EXCEPT !.offset = QueryNumber(o),
                                               !.pageSize = QueryNumber(ps),
                                               !.sort = so]
                   IN  QueryError(other) = "" =>
                           ServiceGetUsers(users, other).total = res.total

\* a query whose filter drops a record and whose page is shorter than total
C1_Witness ==
    /\ Answered
    /\ calls[1].args.min.k = "number"
    /\ calls[1].args.max.k = "number"
    /\ 0 < res.total
    /\ res.total < Len(users)
    /\ Len(res.data) < res.total

\* the number a supplied text denotes
Value(raw) == Number(raw.chars).n

\* the query asks for no pagination
Unpaginated(q, size) == ~q.offset.present /\ ~size.present

\* record u is among the records of the sequence page
Listed(u, page) == \E j \in 1..Len(page) : page[j] = u

\* C2: for every supplied min and max (0 included) a record is in the
\* unpaginated result iff min <= salary <= max, in the in-memory
\* UserService.getUsers and in the Prisma-backed UserController.getUsers.
C2_FilterIffInRange ==
    /\ (/\ variant = "memory" /\ pc = "responded" /\ req.op = "getUsers"
        /\ SuppliedNumber(req.query.min) /\ SuppliedNumber(req.query.max)
        /\ Unpaginated(req.query, req.query.pageSize)) =>
           /\ res.status = 200
           /\ \A i \in 1..Len(users) :
                  Listed(users[i], res.data) <=>
                      i \in InRange(users, Value(req.query.min),
                                    Value(req.query.max))
    /\ (/\ RouteAnswered
        /\ SuppliedNumber(req.query.min) /\ SuppliedNumber(req.query.max)
        /\ Unpaginated(req.query, req.query.limit)) =>
           /\ res.status = 200
           /\ \A i \in 1..Len(db) :
                  Listed([name |-> db[i].name, salary |-> db[i].salary],
                         res.results) <=>
                      i \in InRange(db, Value(req.query.min),
                                    Value(req.query.max))

\* C3: for offset >= 0 and a supplied pageSize >= 0 (0 included) the page of
\* UserService.getUsers is the elements offset .. offset+pageSize-1 of the
\* filtered and sorted sequence, never more than pageSize records; total is
\* the filtered count also when the offset is past the end.
C3_PageIsWindow ==
    (/\ Answered
     /\ calls[1].args.pageSize.k = "number"
     /\ calls[1].args.pageSize.n >= 0
     /\ res.offset >= 0) =>
        LET params == calls[1].args
            sequence == FilteredSorted(users, params).elems
        IN  /\ res.data = Window(sequence, res.offset, params.pageSize.n)
            /\ Len(res.data) <= params.pageSize.n
            /\ res.total = Len(sequence)
            /\ res.offset >= Len(sequence) => res.data = <<>>

\* C4: when pageSize is absent the page of UserService.getUsers is the whole
\* remainder of the filtered and sorted sequence from offset on, uncapped.
C4_NoPageSizeGivesRemainder ==
    (/\ Answered
     /\ ~req.query.pageSize.present
     /\ res.offset >= 0) =>
        LET sequence == FilteredSorted(users, calls[1].args).elems
        IN  /\ res.data = Window(sequence, res.offset, Len(sequence))
            /\ Len(res.data) = Max(Len(sequence) - res.offset, 0)

\* a query without pageSize answered with several records from an offset
C4_Witness ==
    /\ Answered
    /\ ~req.query.pageSize.present
    /\ Len(res.data) >= 2
    /\ Len(users) >= 2

\* a query without pageSize and with an offset inside the sequence
C4_WitnessOffset ==
    /\ Answered
    /\ ~req.query.pageSize.present
    /\ res.offset > 0
    /\ res.data # <<>>

\* C5: a query that supplies neither min nor max returns, before pagination,
\* exactly the stored records with 0 <= salary <= 4000.
C5_DefaultRange ==
    /\ (/\ variant = "memory" /\ pc = "responded" /\ req.op = "getUsers"
        /\ ~req.query.min.present /\ ~req.query.max.present
        /\ Unpaginated(req.query, req.query.pageSize)) =>
           /\ res.status = 200
           /\ \A i \in 1..Len(users) :
                  Listed(users[i], res.data) <=> i \in InRange(users, 0, 4000)
    /\ (/\ RouteAnswered
        /\ ~req.query.min.present /\ ~req.query.max.present
        /\ Unpaginated(req.query, req.query.limit)) =>
           /\ res.status = 200
           /\ \A i \in 1..Len(db) :
                  Listed([name |-> db[i].name, salary |-> db[i].salary],
                         res.results) <=> i \in InRange(db, 0, 4000)

\* C6: the page of a query with sort = SALARY has non-decreasing salaries and
\* the page of a query with sort = NAME has non-decreasing names, in the name
\* order of the sort, in both query implementations.
C6_PageIsSorted ==
    /\ (Answered /\ req.query.sort = Str("SALARY")) =>
           \A i, j \in 1..Len(res.data) :
               i < j => res.data[i].salary <= res.data[j].salary
    /\ (Answered /\ req.query.sort = Str("NAME")) =>
           \A i, j \in 1..Len(res.data) :
               i < j => CollationRank(res.data[i].name)
                            <= CollationRank(res.data[j].name)
    /\ (RouteAnswered /\ req.query.sort = Str("SALARY")) =>
           \A i, j \in 1..Len(res.results) :
               i < j => res.results[i].salary <= res.results[j].salary
    /\ (RouteAnswered /\ req.query.sort = Str("NAME")) =>
           \A i, j \in 1..Len(res.results) :
               i < j => CodePointRank(res.results[i].name)
                            <= CodePointRank(res.results[j].name)

\* a sorted page that lists two records in the reverse of their stored order
C6_Witness ==
    /\ Answered
    /\ req.query.sort \in {Str("SALARY"), Str("NAME")}
    /\ Len(res.data) = 2
    /\ res.data[1] = users[2]
    /\ res.data[2] = users[1]

\* the same on the user table
C6_WitnessRoute ==
    /\ RouteAnswered
    /\ req.query.sort \in {Str("SALARY"), Str("NAME")}
    /\ Len(res.results) = 2
    /\ res.results[1].name = db[2].name
    /\ res.results[2].name = db[1].name

\* the numeric parameters of the query that are text but no number
BadFields(q, sizeField) ==
    {f \in {"min", "max", "offset", sizeField} : NotANumber(q[f])}

\* C7: a query with a min, max, offset or pageSize/limit that does not parse
\* as a number ends in a validation error naming an offending field, and the
\* store is not queried, on the controller getUsers and on the Prisma route.
C7_NonNumericIsRejected ==
    /\ (/\ variant = "memory" /\ pc = "responded" /\ req.op = "getUsers"
        /\ BadFields(req.query, "pageSize") # {}) =>
           /\ res.status = 400
           /\ \E f \in BadFields(req.query, "pageSize") :
                  res.error = "Invalid " \o f \o " parameter"
           /\ calls = <<>>
    /\ (RouteAnswered /\ BadFields(req.query, "limit") # {}) =>
           /\ res.status = 400
           /\ calls = <<>>

\* C8: a getUsers call leaves the store as it was: the same records in the
\* same order, and the same next id.
C8_QueryIsPureRead ==
    [][(pc = "idle" /\ pc' = "responded" /\ req'.op = "getUsers") =>
           (users' = users /\ nextId' = nextId)]_vars

\* a query without filter whose sort lists the records in another order than
\* the store holds them
C8_Witness ==
    /\ Answered
    /\ ~req.query.min.present
    /\ ~req.query.max.present
    /\ ~Falsy(req.query.sort)
    /\ Len(res.data) = Len(users)
    /\ res.data # users

\* the body fails the requirements of a create request
BadBody(body) ==
    \/ body.name.k # "string"
    \/ body.name.s = ""
    \/ body.salary.k # "number"

\* C9: a create request whose name is missing, empty or no string, or whose
\* salary is missing or no number, gets a validation error; no record is
\* added and no id is consumed.
C9_BadCreateChangesNothing ==
    [][(pc = "idle" /\ req'.op = "createUser" /\ BadBody(req'.body)) =>
           /\ res'.status = 400
           /\ res'.success = FALSE
           /\ users' = users
           /\ nextId' = nextId
           /\ calls' = <<>>]_vars

\* a create request with an empty name was refused on a store with a record
C9_Witness ==
    /\ variant = "memory"
    /\ pc = "responded"
    /\ req.op = "createUser"
    /\ req.body.name = Str("")
    /\ req.body.salary.k = "number"
    /\ res.status = 400
    /\ users # <<>>

\* a create request with a salary that is not a number was refused
C9_WitnessSalary ==
    /\ variant = "memory"
    /\ pc = "responded"
    /\ req.op = "createUser"
    /\ req.body.name.s \in Names
    /\ req.body.salary = Str("3000")
    /\ res.status = 400

\* C10: a create request with a non-empty string name and any number as
\* salary (0 included) adds exactly one record with that name and salary and
\* returns it with its id; only other requests get a validation error.
C10_GoodCreateAddsRecord ==
    [][(pc = "idle" /\ req'.op = "createUser") =>
           /\ ~BadBody(req'.body) =>
                  /\ res'.status = 201
                  /\ users' = Append(users, res'.data)
                  /\ res'.data.name = req'.body.name.s
                  /\ res'.data.salary = req'.body.salary.n
                  /\ \A i \in 1..Len(users) : users[i].id # res'.data.id
           /\ res'.status = 400 => BadBody(req'.body)]_vars

\* the position in this.users of the record, known by its id
Position(user) == CHOOSE i \in 1..Len(users) : users[i].id = user.id

\* C24: UserService.getUsers lists the matching records in insertion order
\* when no sort key is given, and with sort = NAME or SALARY records with
\* equal keys keep their insertion order.
C24_InsertionOrderKept ==
    Answered =>
        /\ \A i \in 1..Len(res.data) :
               \E k \in 1..Len(users) : users[k] = res.data[i]
        /\ Falsy(req.query.sort) =>
               \A i, j \in 1..Len(res.data) :
                   i < j => Position(res.data[i]) < Position(res.data[j])
        /\ req.query.sort = Str("SALARY") =>
               \A i, j \in 1..Len(res.data) :
                   (i < j /\ res.data[i].salary = res.data[j].salary) =>
                       Position(res.data[i]) < Position(res.data[j])
        /\ req.query.sort = Str("NAME") =>
               \A i, j \in 1..Len(res.data) :
                   (i < j /\ localeCompare(res.data[i].name,
                                           res.data[j].name) = 0) =>
                       Position(res.data[i]) < Position(res.data[j])

\* a page sorted by salary lists two records of equal salary and different
\* names in the order they were stored in
C24_Witness ==
    /\ Answered
    /\ req.query.sort = Str("SALARY")
    /\ Len(res.data) = 2
    /\ res.data[1].salary = res.data[2].salary
    /\ res.data[1].name # res.data[2].name
    /\ res.data = users

\* a page without sort key lists two records in the order they were stored in
C24_WitnessUnsorted ==
    /\ Answered
    /\ Falsy(req.query.sort)
    /\ Len(res.data) = 2
    /\ res.data = users
    /\ CollationRank(users[1].name) > CollationRank(users[2].name)

\* the name and salary of each row
Projected(rows) ==
    [i \in 1..Len(rows) |-> [name |-> rows[i].name, salary |-> rows[i].salary]]

\* C23: UserController.getUsers over the table returns at most `limit`
\* records for every supplied limit (0 included) and at most 10 when no limit
\* is given, and they are the records from position `offset` on of the
\* filtered and sorted rows.
C23_AtMostLimitFromOffset ==
    (RouteAnswered /\ res.status = 200) =>
        LET query == RouteQuery(req.query)
            where == Where(query)
            matching == SelectSeq(db, LAMBDA row :
                            row.salary >= where.gte /\ row.salary <= where.lte)
            offset == IF SuppliedNumber(req.query.offset)
                      THEN Value(req.query.offset) ELSE 0
        IN  /\ SuppliedNumber(req.query.limit) =>
                   Len(res.results) <= Value(req.query.limit)
            /\ ~req.query.limit.present => Len(res.results) <= DefaultLimit
            /\ \E ordered \in Orderings(matching, OrderBy(query)) :
                   res.results =
                       Projected(Window(ordered, offset, Len(res.results)))

----------------------------------------------------------------------------
(* Properties of the upload *)

\* the upload handler has answered a request that came with a file
Uploaded ==
    /\ variant = "prisma"
    /\ pc = "responded"
    /\ req.op = "upload"
    /\ req.file.present

\* the row lacks a name or a salary field
MissingField(data) ==
    \/ data.name.k # "string"
    \/ data.name.s = ""
    \/ ~data.salary.present
    \/ data.salary.chars = <<>>

\* the row is structurally broken: a field is missing or the salary does not
\* parse as a number
BadRow(data) == MissingField(data) \/ parseFloat(data.salary).k = "NaN"

\* the file has a structurally broken row
BadFile(file) == \E k \in 1..Len(file.rows) : BadRow(file.rows[k])

\* C11: if any row of the CSV lacks a name or a salary or has a salary that
\* does not parse as a number, the upload ends with an error response and the
\* table is as it was before the upload, wherever the failing row stands.
C11_BadFileCommitsNothing ==
    (Uploaded /\ BadFile(req.file)) =>
        /\ res.status = 400
        /\ res.success = 0
        /\ db = up.before
        /\ calls = <<>>

\* an upload refused for its second row, after a row that is fit to be
\* upserted, on a table that holds a record
C11_Witness ==
    /\ Uploaded
    /\ Len(req.file.rows) = 2
    /\ ~BadRow(req.file.rows[1])
    /\ parseFloat(req.file.rows[1].salary).n >= 0
    /\ BadRow(req.file.rows[2])
    /\ res.status = 400
    /\ db # <<>>

\* the catch block has answered for a store call that failed
StoreFailed == res.status = 400 /\ res.error = StoreFailure

\* the rows of the file with a salary >= 0, as name and salary, in input order
RECURSIVE Accepted(_)
Accepted(rows) ==
    IF rows = <<>> THEN <<>>
    ELSE LET salary == parseFloat(Head(rows).salary).n
         IN  (IF salary >= 0
              THEN <<[name |-> Head(rows).name.s, salary |-> salary]>>
              ELSE <<>>) \o Accepted(Tail(rows))

\* the rows of the table with the given name
Named(table, name) == SelectSeq(table, LAMBDA row : row.name = name)

\* the salary of the last of the rows with the given name
LastSalary(rows, name) ==
    LET hits == Named(rows, name) IN hits[Len(hits)].salary

\* C12: in a structurally valid upload the rows with a negative salary are
\* skipped, the run goes on and makes no store call for them; every row with
\* salary >= 0 (0.00 included) is upserted, also after a skipped row; the
\* number of processed records is the number of rows with salary >= 0.
C12_NegativeRowsAreSkipped ==
    (Uploaded /\ ~BadFile(req.file) /\ ~StoreFailed) =>
        LET accepted == Accepted(req.file.rows)
        IN  /\ res.status = 200
            /\ res.processed = Len(accepted)
            /\ res.processedRecords = accepted
            /\ Len(calls) = 2 * Len(accepted)
            /\ \A k \in 1..Len(accepted) :
                   /\ calls[2 * k - 1] = Call("findFirst", accepted[k].name)
                   /\ calls[2 * k].fn \in {"update", "create"}
                   /\ calls[2 * k].args = accepted[k]
                   /\ \E i \in 1..Len(db) :
                          /\ db[i].name = accepted[k].name
                          /\ db[i].salary = LastSalary(accepted, accepted[k].name)
            /\ \A name \in {"al", "Al"} :
                   Named(accepted, name) = <<>> =>
                       Named(db, name) = Named(up.before, name)

\* an upload whose first row has a negative salary and whose second row, with
\* salary 0.00, was upserted
C12_Witness ==
    /\ Uploaded
    /\ res.status = 200
    /\ Len(req.file.rows) = 2
    /\ parseFloat(req.file.rows[1].salary).n < 0
    /\ req.file.rows[2].salary = Raw(<<"0", ".", "0", "0">>)
    /\ res.processed = 1
    /\ \E i \in 1..Len(db) :
           db[i].name = req.file.rows[2].name.s /\ db[i].salary = 0

\* the ids of the rows of the table
Ids(table) == {table[i].id : i \in 1..Len(table)}

\* the step is the update or create call of the loop for row up.i
WriteStep ==
    /\ pc = "upload"
    /\ up.stage = "write"
    /\ up'.stage = "find"

\* C13: the upsert of an accepted row, when a record with exactly that name
\* exists, sets only that record's salary: ids, names and the number of records
\* stay; when none exists it inserts exactly one record with the row's name and
\* salary and an id no record has.
C13_UpsertPerRow ==
    [][WriteStep =>
        LET user == up.results[up.i]
        IN  IF \E i \in 1..Len(db) : db[i].name = user.name
            THEN /\ Len(db') = Len(db)
                 /\ \A i \in 1..Len(db) :
                        /\ db'[i].id = db[i].id
                        /\ db'[i].name = db[i].name
                        /\ db'[i].salary = IF db[i].name = user.name
                                           THEN user.salary
                                           ELSE db[i].salary
            ELSE /\ Len(db') = Len(db) + 1
                 /\ SubSeq(db', 1, Len(db)) = db
                 /\ db'[Len(db')].name = user.name
                 /\ db'[Len(db')].salary = user.salary
                 /\ db'[Len(db')].id \notin Ids(db)]_vars

\* an upload over a table holding "al" has inserted "Al" as a record of its
\* own and has updated "al" in place
C13_Witness ==
    /\ Uploaded
    /\ res.status = 200
    /\ Named(up.before, "al") # <<>>
    /\ Named(up.before, "Al") = <<>>
    /\ Len(db) = Len(up.before) + 1
    /\ Named(db, "Al") # <<>>
    /\ \E k \in 1..Len(calls) : calls[k].fn = "update" /\ calls[k].args.name = "al"
    /\ \E k \in 1..Len(calls) : calls[k].fn = "create" /\ calls[k].args.name = "Al"
    /\ Named(db, "al")[1].id = Named(up.before, "al")[1].id
    /\ Named(db, "al")[1].salary # Named(up.before, "al")[1].salary

\* no two rows of the sequence have the same name
UniqueNames(rows) ==
    \A i, j \in 1..Len(rows) : rows[i].name = rows[j].name => i = j

\* every row of the batch has a record of its name and salary in the table
Reflects(table, results) ==
    \A k \in 1..Len(results) :
        \E i \in 1..Len(table) :
            /\ table[i].name = results[k].name
            /\ table[i].salary = results[k].salary

\* C14: a valid batch with unique names, run a second time right after its
\* first run, leaves the store as the first run left it (same records, ids and
\* salaries) and inserts nothing.
C14_IngestIsIdempotent ==
    (Uploaded /\ res.status = 200 /\ UniqueNames(res.processedRecords)) =>
        LET results == res.processedRecords
            created == Len(db) - Len(up.before)
            first == UpsertLoop([table |-> up.before, next |-> dbNextId - created],
                                results, 1)
            second == UpsertLoop([table |-> db, next |-> dbNextId], results, 1)
        IN  /\ first = [table |-> db, next |-> dbNextId]
            /\ second = first
            /\ Reflects(up.before, results) =>
                   /\ db = up.before
                   /\ \A k \in 1..Len(calls) : calls[k].fn # "create"

\* a batch of two rows has run on a table that already held both rows with
\* these salaries, as the table is after a first run of the batch
C14_Witness ==
    /\ Uploaded
    /\ res.status = 200
    /\ Len(res.processedRecords) = 2
    /\ UniqueNames(res.processedRecords)
    /\ Reflects(up.before, res.processedRecords)
    /\ \E k \in 1..2 : res.processedRecords[k].salary > 0
    /\ Len(calls) = 4
    /\ db = up.before

\* C16: a handler that received a file has removed the staged file when it
\* answers, on each exit path (success, a row that fails validation, a store
\* call that fails), and has removed it once; until it answers the file is
\* there.
C16_StagedFileRemovedOnce ==
    /\ (variant = "prisma" /\ pc = "upload") =>
           (up.staged /\ up.unlinks = 0)
    /\ Uploaded => (~up.staged /\ up.unlinks = 1)

\* the handler has answered for a store call that failed after a row of the
\* file had been written
C16_Witness ==
    /\ Uploaded
    /\ StoreFailed
    /\ db # up.before
    /\ ~up.staged
    /\ up.unlinks = 1

\* the handler has answered 400 for a row that failed validation
C16_WitnessRejected ==
    /\ Uploaded
    /\ BadFile(req.file)
    /\ res.status = 400
    /\ up.unlinks = 1

\* an upload with a file is being handled or has been answered
Uploading ==
    /\ variant = "prisma"
    /\ pc \in {"upload", "responded"}
    /\ req.op = "upload"
    /\ req.file.present

\* C20 (as stated): the upsert of row N is complete before row N+1 is read:
\* when a row has been read, the accepted rows before it have been upserted.
C20_UpsertBeforeNextRead ==
    (Uploading /\ up.read >= 2) =>
        up.i - 1 >= Len(Accepted(SubSeq(req.file.rows, 1, up.read - 1)))

\* C20 (amended): all rows of the file are read and validated before the first
\* store call; the accepted rows are then upserted one after the other in
\* input order, each with its find and its write before the next row's find.
C20_ReadAllThenUpsertInOrder ==
    Uploading =>
        /\ (calls # <<>> \/ up.stage \in {"find", "write"}) =>
               /\ up.read = Len(req.file.rows)
               /\ up.results = Accepted(req.file.rows)
        /\ up.stage = "parse" => (calls = <<>> /\ db = up.before)
        /\ \A k \in 1..Len(calls) :
               LET user == up.results[(k + 1) \div 2]
               IN  IF k % 2 = 1
                   THEN calls[k] = Call("findFirst", user.name)
                   ELSE calls[k].fn \in {"update", "create"} /\ calls[k].args = user
        /\ pc = "upload" =>
               Len(calls) = 2 * (up.i - 1) + (IF up.stage = "write" THEN 1 ELSE 0)

\* both rows of a file have been read, the first one has been written and the
\* second one's find has been made
C20_Witness ==
    /\ Uploading
    /\ pc = "upload"
    /\ Len(req.file.rows) = 2
    /\ up.read = 2
    /\ Len(up.results) = 2
    /\ up.stage = "write"
    /\ up.i = 2
    /\ Len(calls) = 3
    /\ db # up.before

\* the create calls made for the name
Creates(name) ==
    SelectSeq(calls, LAMBDA c : c.fn = "create" /\ c.args.name = name)

\* C21: when the batch of one upload, running alone, has several accepted rows
\* of one name and at most one record of that name existed, the table then
\* holds exactly one record of that name, with the salary of the last of these
\* rows, and at most one record was inserted for the name.
C21_LaterRowsSeeEarlierOnes ==
    (Uploaded /\ res.status = 200) =>
        \A name \in {"al", "Al"} :
            LET rows == Named(res.processedRecords, name)
            IN  (Len(rows) >= 2 /\ Len(Named(up.before, name)) <= 1) =>
                    /\ Len(Named(db, name)) = 1
                    /\ Named(db, name)[1].salary = rows[Len(rows)].salary
                    /\ Len(Creates(name)) =
                           (IF Named(up.before, name) = <<>> THEN 1 ELSE 0)

\* a batch of two rows named "al" with different salaries has run on a table
\* without that name: one record, created by the first row and updated by the
\* second
C21_Witness ==
    /\ Uploaded
    /\ res.status = 200
    /\ Named(up.before, "al") = <<>>
    /\ Len(Named(res.processedRecords, "al")) = 2
    /\ res.processedRecords[1].salary # res.processedRecords[2].salary
    /\ Len(Named(db, "al")) = 1
    /\ Named(db, "al")[1].salary = res.processedRecords[2].salary
    /\ calls[2].fn = "create"
    /\ calls[4].fn = "update"

----------------------------------------------------------------------------
(* Properties of the stored records *)

\* the records of the variant's store
Stored == IF variant = "prisma" THEN db ELSE users

\* no two records of the sequence have the same id
UniqueIds(records) ==
    \A i, j \in 1..Len(records) : records[i].id = records[j].id => i = j

\* C17: through creates and uploads no two stored records have the same id,
\* a record keeps its id (also when an upload updates it), and, no record
\* being removed, a new record never gets an id that was assigned before.
C17_IdsUniqueAndStable ==
    [][/\ UniqueIds(Stored)
       /\ UniqueIds(Stored')
       /\ Len(Stored') >= Len(Stored)
       /\ \A i \in 1..Len(Stored) : Stored'[i].id = Stored[i].id]_vars

\* an upload has updated one record and created another: two records with two
\* ids, the updated one with the id it had
C17_Witness ==
    /\ Uploaded
    /\ res.status = 200
    /\ Len(up.before) = 1
    /\ Len(db) = 2
    /\ db[1].id = up.before[1].id
    /\ db[1].salary # up.before[1].salary
    /\ db[2].id # db[1].id

\* the seeded service has created a fourth record
C17_WitnessSeeded ==
    /\ variant = "seeded"
    /\ Len(users) = 4
    /\ users[4].id = "4"

\* the in-memory service has created two records
C17_WitnessMemory ==
    /\ variant = "memory"
    /\ Len(users) = 2
    /\ users[1].id = "1"
    /\ users[2].id = "2"

\* C18: through create requests and uploads every stored record has a salary
\* >= 0.
C18_SalariesNonNegative ==
    \A i \in 1..Len(Stored) : Stored[i].salary >= 0

\* C19: through create requests to the in-memory UserService no two stored
\* records have the same name.
C19_NoDuplicateNames ==
    variant = "memory" => UniqueNames(users)

\* every record of `old` is in `new` with its id and name, and with its salary
\* too unless its name is one of `names`
Kept(old, new, names) ==
    \A i \in 1..Len(old) :
        \E j \in 1..Len(new) :
            /\ new[j].id = old[i].id
            /\ new[j].name = old[i].name
            /\ old[i].name \notin names => new[j].salary = old[i].salary

\* the names of the rows
NamesOf(rows) == {rows[k].name : k \in 1..Len(rows)}

\* during and after an upload: the records the table held when the handler
\* started are kept, but for the salaries of the names of accepted rows, and
\* the records added have such names
UploadFrame ==
    Uploading =>
        LET names == NamesOf(Accepted(req.file.rows))
        IN  /\ Kept(up.before, db, names)
            /\ Len(db) >= Len(up.before)
            /\ \A j \in 1..Len(db) :
                   (\A i \in 1..Len(up.before) : up.before[i].id # db[j].id) =>
                       db[j].name \in names

\* C25: an upload changes only records whose name is the name of one of its
\* accepted rows (salary >= 0); every other record keeps id, name and salary;
\* through creates and uploads no record is removed or renamed and the number
\* of records never goes down.
C25_IngestFrame ==
    [][/\ UploadFrame'
       /\ Len(Stored') >= Len(Stored)
       /\ Kept(Stored, Stored',
               IF Uploading THEN NamesOf(Accepted(req.file.rows)) ELSE {})]_vars

\* an upload with a skipped row named "Al" and an accepted row named "al" has
\* run on a table holding both names: the record "Al" is as it was, the
\* salary of "al" has changed
C25_Witness ==
    /\ Uploaded
    /\ res.status = 200
    /\ Len(up.before) = 2
    /\ NamesOf(Accepted(req.file.rows)) = {"al"}
    /\ \E k \in 1..Len(req.file.rows) : req.file.rows[k].name = Str("Al")
    /\ Named(db, "Al") = Named(up.before, "Al")
    /\ Named(db, "Al") # <<>>
    /\ Named(db, "al")[1].salary # Named(up.before, "al")[1].salary
    /\ Len(db) = 2

----------------------------------------------------------------------------
(* Properties of concurrent uploads *)

\* C15: with two upload runs interleaved at every store call, the find by name
\* and the create or update of one row are atomic: two upserts of one name
\* never both find nothing and both insert, so no two records of the table
\* share a name.
C15_NoTwoRecordsShareName ==
    \A i, j \in 1..Len(db) : db[i].name = db[j].name => i = j

====
